---- MODULE Spec2Model ----
(***************************************************************************)
(* Retrieval fusion and routing engine of rag-code-assistant.              *)
(*                                                                         *)
(*   HybridSearch    src/src/retrieval/hybrid_search.py                    *)
(*   AdaptiveSearch  src/src/retrieval/adaptive_search.py                  *)
(*   Reranker        src/src/retrieval/reranker.py                         *)
(*   BM25Search      src/src/retrieval/bm25_search.py                      *)
(*   QueryExpander   src/src/retrieval/query_expander.py                   *)
(*   RAGPipeline     src/src/generation/rag_pipeline.py                    *)
(*                                                                         *)
(* Scores are exact rationals kept as scaled integers: 1/(rank+k) is       *)
(* stored as Denom(k)/(rank+k), weights in tenths (0.7 is 7, 1.0 is 10).   *)
(* Python's None is NoneVal.  A dict is a sequence in insertion order.     *)
(***************************************************************************)
EXTENDS Integers, Sequences, FiniteSets, TLC

\* ------------------------------------------------------------------ bounds
NumDocs == 3          \* chunk ids of the fusion function's inputs are 1..NumDocs
SearchDocs == 2       \* chunk ids the two indexes hold are 1..SearchDocs
MaxN == 2             \* n_results ranges over 0..MaxN
MaxVariations == 1    \* paraphrases the expander adds to the original query
MaxWords == 5         \* words in a generated router query
MaxBatch == 2         \* texts in a list passed to Embedder.embed
MaxEmbedCalls == 2    \* Embedder.embed calls in one run

\* --------------------------------------------------------------- constants
DefaultK == 30        \* HybridSearch.__init__ default k
NoneVal == -1         \* Python None in a rank field

Docs == 1..NumDocs
IndexDocs == 1..SearchDocs

\* Weights in tenths; the classifier's configs use 0, 7 and 10.
Weights == {0, 7, 10, 15}
KValues == {1, DefaultK, 60}

VARIABLES
    \* ---- HybridSearch._merge_results as a function under test
    bm25_results,     \* ranked lexical list of the last merge (chunk records)
    vector_results,   \* ranked dense list of the last merge
    bm25_weight,
    vector_weight,
    k,
    merged,           \* list returned by the last _merge_results
    mergePc,          \* "off" | "input" | "done"
    \* ---- AdaptiveSearch routing
    query,            \* the query string of the call, a sequence of characters
    query_lower,      \* query.lower().strip() in AdaptiveSearch.search
    route,            \* result of _determine_route, "" before it ran
    routePc,          \* "off" | "input" | "done"
    \* ---- components, as constructed
    reranker,         \* a Reranker is configured (self.reranker is not None)
    query_expander,   \* HybridSearch.query_expander is not None
    query_classifier, \* HybridSearch.query_classifier is not None
    bm25_built,       \* BM25Search.bm25 is not None (index_documents had chunks)
    expander_cache,   \* QueryExpander.cache: query -> list, <<>> when absent
    \* ---- one search call
    entry,            \* "none" | "hybrid" | "adaptive" | "pipeline"
    n_results,
    use_classifier,
    use_reranker,
    config,           \* the resolved search config
    queries,          \* query variants: 0 is the original, 1.. are paraphrases
    qi,               \* position of the for loop over queries
    all_results,      \* dict chunk_id -> result, in insertion order
    final,            \* the list the call returned
    pc,               \* "off" | "idle" | "expand" | "retrieve" | "returned" | "raised"
                      \* | "cancel" | "cancel_raised" (RAGPipeline.query: the
                      \* search ended, the alarm is not yet cancelled)
                      \* | "llm_wait" | "expander"
    calls,            \* collaborator calls of this search call, in order
    alarm,            \* RAGPipeline.query: signal.alarm(timeout) is pending
    pipeline_error,   \* 'error' of the dict RAGPipeline.query returned
    \* ---- QueryClassifier as a function under test
    query_type,       \* result of classify, "" before it ran
    class_config,     \* the dict the last get_search_config returned, as its
                      \* caller holds it; <<>> before the first call
    classPc,          \* "off" | "input" | "classified" | "config" | "returned"
                      \* | "mutated" | "returned_again" (after "mutated")
    \* ---- Embedder
    cache,            \* Embedder.cache: text_hash -> embedding, insertion order
    cache_size,       \* Embedder.cache_size
    th,               \* per thread: the embed call it is in, with its locals
    model_calls,      \* the lists passed to self.model.encode, in order
    \* ---- Reranker.rerank as a function under test
    rr_results,       \* the candidate list passed to rerank
    rr_scores,        \* what model.predict returns for it, by candidate id
    rr_top_k,         \* the top_k argument, NoneVal when absent
    rr_reranked,      \* the list rerank returned
    predict_calls,    \* number of self.model.predict calls
    rerankPc,         \* "off" | "input" | "returned" | "raised"
    \* ---- QueryExpander.expand as a function under test
    expand_path,      \* branch the last expand took: "" | "cache" | "skip"
                      \* | "llm" | "exception"
    \* ---- ConversationManager
    history,          \* ConversationManager.history, a list of turn dicts
    max_history,      \* ConversationManager.max_history
    added,            \* turns passed to add_turn since the last clear, in order
    conv_ret,         \* what the last safe_add_turn returned, NoneVal before
    convPc            \* "off" | "ready"

mergeVars == <<bm25_results, vector_results, bm25_weight, vector_weight, k,
               merged, mergePc>>
\* the merge variables a search call leaves alone: merged is its local
mergeInputs == <<bm25_results, vector_results, bm25_weight, vector_weight, k, mergePc>>
routeVars == <<query, query_lower, route, routePc>>

envVars == <<reranker, query_expander, query_classifier, bm25_built, expander_cache>>
callVars == <<entry, n_results, use_classifier, use_reranker, config, queries, qi,
              all_results, final, pc, calls, alarm, pipeline_error>>

classVars == <<query_type, class_config, classPc>>
embedVars == <<cache, cache_size, th, model_calls>>

rerankVars == <<rr_results, rr_scores, rr_top_k, rr_reranked, predict_calls,
                rerankPc>>
expandVars == <<expand_path>>
convVars == <<history, max_history, added, conv_ret, convPc>>
auxVars == <<rerankVars, expandVars, convVars>>

vars == <<mergeVars, routeVars, envVars, callVars, classVars, embedVars, auxVars>>



\* Every duplicate-free sequence over S (what an index can return).
RankedLists(S) ==
    UNION {{s \in [1..n -> S] : \A i, j \in 1..n : i # j => s[i] # s[j]}
           : n \in 0..Cardinality(S)}

Take(s, n) == SubSeq(s, 1, IF n < Len(s) THEN n ELSE Len(s))

\* Position of the entry with this id in a dict kept as a sequence, 0 if absent.
KeyPos(d, id) ==
    IF \E i \in 1..Len(d) : d[i].id = id
    THEN CHOOSE i \in 1..Len(d) : d[i].id = id
    ELSE 0

\* A descending sort that puts a later element before its equals
RECURSIVE InsertDesc_TiesReversed(_, _, _)
InsertDesc_TiesReversed(sorted, x, key) ==
    IF sorted = <<>> THEN <<x>>
    ELSE IF Head(sorted)[key] > x[key]
         THEN <<Head(sorted)>> \o InsertDesc_TiesReversed(Tail(sorted), x, key)
         ELSE <<x>> \o sorted

\* list.sort(key=lambda x: x[key], reverse=True): stable, descending.
RECURSIVE InsertDesc(_, _, _)
InsertDesc(sorted, x, key) ==
    IF sorted = <<>> THEN <<x>>
    ELSE IF Head(sorted)[key] >= x[key]
         THEN <<Head(sorted)>> \o InsertDesc(Tail(sorted), x, key)
         ELSE <<x>> \o sorted

RECURSIVE SortDescFrom(_, _, _, _)
SortDescFrom(s, i, acc, key) ==
    IF i > Len(s) THEN acc
    ELSE SortDescFrom(s, i + 1, InsertDesc(acc, s[i], key), key)

SortDesc(s, key) == SortDescFrom(s, 1, <<>>, key)

\* ---------------------------------------------------------------- strings
\* A Python str is a sequence of one-character strings; " " is the only
\* whitespace character of the alphabet used here.
IsSpace(c) == c = " "

UpperToLower ==
    ("A" :> "a") @@ ("B" :> "b") @@ ("C" :> "c") @@ ("D" :> "d") @@ ("E" :> "e")
    @@ ("F" :> "f") @@ ("G" :> "g") @@ ("H" :> "h") @@ ("I" :> "i") @@ ("J" :> "j")
    @@ ("K" :> "k") @@ ("L" :> "l") @@ ("M" :> "m") @@ ("N" :> "n") @@ ("O" :> "o")
    @@ ("P" :> "p") @@ ("Q" :> "q") @@ ("R" :> "r") @@ ("S" :> "s") @@ ("T" :> "t")
    @@ ("U" :> "u") @@ ("V" :> "v") @@ ("W" :> "w") @@ ("X" :> "x") @@ ("Y" :> "y")
    @@ ("Z" :> "z")

lower(s) == [i \in 1..Len(s) |->
               IF s[i] \in DOMAIN UpperToLower THEN UpperToLower[s[i]] ELSE s[i]]

RECURSIVE lstrip(_)
lstrip(s) == IF s # <<>> /\ IsSpace(Head(s)) THEN lstrip(Tail(s)) ELSE s

RECURSIVE rstrip(_)
rstrip(s) ==
    IF s # <<>> /\ IsSpace(s[Len(s)]) THEN rstrip(SubSeq(s, 1, Len(s) - 1)) ELSE s

strip(s) == rstrip(lstrip(s))

\* str.split(): split on runs of whitespace, no empty words
RECURSIVE SplitFrom(_, _, _, _)
SplitFrom(s, i, cur, acc) ==
    IF i > Len(s)
    THEN IF cur = <<>> THEN acc ELSE Append(acc, cur)
    ELSE IF IsSpace(s[i])
         THEN SplitFrom(s, i + 1, <<>>, IF cur = <<>> THEN acc ELSE Append(acc, cur))
         ELSE SplitFrom(s, i + 1, Append(cur, s[i]), acc)

split(s) == SplitFrom(s, 1, <<>>, <<>>)

\* pat in s
Contains(s, pat) ==
    \E i \in 1..(Len(s) - Len(pat) + 1) : SubSeq(s, i, i + Len(pat) - 1) = pat

\* " ".join(words)
RECURSIVE Join(_)
Join(words) ==
    IF words = <<>> THEN <<>>
    ELSE IF Len(words) = 1 THEN words[1]
    ELSE words[1] \o <<" ">> \o Join(Tail(words))

\* ------------------------------------------------------- rank fusion (RRF)
\* A chunk record as an index returns it: the lexical index adds 'score',
\* the dense index adds 'distance'; src remembers which record this is.
Bm25Chunk(id) == [id |-> id, src |-> "bm25"]
VectorChunk(id) == [id |-> id, src |-> "vector"]

RECURSIVE Denom(_, _)
Denom(kk, n) == IF n = 0 THEN 1 ELSE (n - 1 + kk) * Denom(kk, n - 1)

\* A score that grows with the rank instead of shrinking
rrf_score_GrowingWithRank(rank, kk) == rank + kk

\* 1.0 / (rank + self.k), scaled by Denom(k, NumDocs)
rrf_score(rank, kk) == Denom(kk, NumDocs) \div (rank + kk)

\* A first loop that writes rank 0 where the dense rank is absent
RECURSIVE MergeBm25_AbsentAsZero(_, _, _, _, _)
MergeBm25_AbsentAsZero(scores, results, rank, w, kk) ==
    IF rank >= Len(results) THEN scores
    ELSE
      LET result == results[rank + 1]
          rrf == rrf_score(rank, kk) * w
          s1 == IF KeyPos(scores, result.id) = 0
                THEN Append(scores, [id |-> result.id, rrf_score |-> 0,
                                     bm25_rank |-> rank, vector_rank |-> 0,
                                     chunk |-> result])
                ELSE scores
          p == KeyPos(s1, result.id)
          s2 == [s1 EXCEPT ![p].rrf_score = @ + rrf, ![p].bm25_rank = rank]
      IN MergeBm25_AbsentAsZero(s2, results, rank + 1, w, kk)

\* First loop of _merge_results: enumerate(bm25_results)
RECURSIVE MergeBm25(_, _, _, _, _)
MergeBm25(scores, results, rank, w, kk) ==
    IF rank >= Len(results) THEN scores
    ELSE
      LET result == results[rank + 1]
          rrf == rrf_score(rank, kk) * w
          s1 == IF KeyPos(scores, result.id) = 0
                THEN Append(scores, [id |-> result.id, rrf_score |-> 0,
                                     bm25_rank |-> rank, vector_rank |-> NoneVal,
                                     chunk |-> result])
                ELSE scores
          p == KeyPos(s1, result.id)
          s2 == [s1 EXCEPT ![p].rrf_score = @ + rrf, ![p].bm25_rank = rank]
      IN MergeBm25(s2, results, rank + 1, w, kk)

\* Second loop of _merge_results: enumerate(vector_results).  The score is
\* added only in the else branch, so a new (dense-only) entry keeps 0.
RECURSIVE MergeVector(_, _, _, _, _)
MergeVector(scores, results, rank, w, kk) ==
    IF rank >= Len(results) THEN scores
    ELSE
      LET result == results[rank + 1]
          rrf == rrf_score(rank, kk) * w
          p == KeyPos(scores, result.id)
          s1 == IF p = 0
                THEN Append(scores, [id |-> result.id, rrf_score |-> 0,
                                     bm25_rank |-> NoneVal, vector_rank |-> rank,
                                     chunk |-> result])
                ELSE [scores EXCEPT ![p].rrf_score = @ + rrf,
                                    ![p].vector_rank = rank]
      IN MergeVector(s1, results, rank + 1, w, kk)

\* scores dict after both loops
MergeScores(bm25, vec, wb, wv, kk) ==
    MergeVector(MergeBm25(<<>>, bm25, 0, wb, kk), vec, 0, wv, kk)

\* result = data['chunk'].copy() plus the three fields, then the sort
MergeOutput(scores) ==
    SortDesc([i \in 1..Len(scores) |->
                 [id |-> scores[i].id, src |-> scores[i].chunk.src,
                  rrf_score |-> scores[i].rrf_score,
                  bm25_rank |-> scores[i].bm25_rank,
                  vector_rank |-> scores[i].vector_rank]],
             "rrf_score")

_merge_results(bm25, vec, wb, wv, kk) ==
    MergeOutput(MergeScores(bm25, vec, wb, wv, kk))

\* ------------------------------------------------- AdaptiveSearch routing
how_to_indicators ==
    {<<"h", "o", "w", " ", "t", "o">>,
     <<"h", "o", "w", " ", "d", "o">>,
     <<"h", "o", "w", " ", "c", "a", "n">>,
     <<"h", "o", "w", " ", "s", "h", "o", "u", "l", "d">>,
     <<"h", "o", "w", " ", "w", "o", "u", "l", "d">>,
     <<"h", "o", "w", " ", "d", "o", "e", "s">>,
     <<"h", "o", "w", " ", "w", "i", "l", "l">>}

common_prefixes ==
    {<<"a", "p", "i">>,
     <<"h", "t", "t", "p">>,
     <<"w", "e", "b">>,
     <<"b", "a", "c", "k", "g", "r", "o", "u", "n", "d">>,
     <<"f", "i", "l", "e">>}

route_code_patterns ==
    {<<"a", "s", "y", "n", "c">>,
     <<"a", "w", "a", "i", "t">>,
     <<"d", "e", "c", "o", "r", "a", "t", "o", "r">>,
     <<"p", "a", "t", "t", "e", "r", "n">>,
     <<"c", "o", "n", "t", "e", "x", "t", " ", "m", "a", "n", "a", "g", "e", "r">>,
     <<"g", "e", "n", "e", "r", "a", "t", "o", "r">>,
     <<"f", "u", "n", "c", "t", "i", "o", "n">>,
     <<"h", "a", "n", "d", "l", "e", "r">>,
     <<"m", "i", "d", "d", "l", "e", "w", "a", "r", "e">>,
     <<"l", "i", "f", "e", "c", "y", "c", "l", "e">>,
     <<"i", "n", "j", "e", "c", "t", "i", "o", "n">>,
     <<"v", "a", "l", "i", "d", "a", "t", "i", "o", "n">>}

_is_how_to_query(q) == \E indicator \in how_to_indicators : Contains(q, indicator)

\* A single-term rule without the two-words-with-a-prefix case
_is_single_term_OneWordOnly(q) == Len(split(q)) = 1

_is_single_term(q) ==
    LET words == split(q)
    IN \/ Len(words) = 1
       \/ /\ Len(words) = 2
          /\ \E i \in 1..2 : lower(words[i]) \in common_prefixes

_is_complex_query(q) ==
    \/ \E pattern \in route_code_patterns : Contains(q, pattern)
    \/ LET words == split(q) IN Len(words) >= 2 /\ Len(words) <= 4

\* A router that tests the complex rule before the how-to rule
_determine_route_ComplexFirst(q) ==
    IF _is_complex_query(q) THEN "complex"
    ELSE IF _is_how_to_query(q) THEN "how_to"
    ELSE IF _is_single_term(q) THEN "specific_term"
    ELSE "default"

_determine_route(q) ==
    IF _is_how_to_query(q) THEN "how_to"
    ELSE IF _is_single_term(q) THEN "specific_term"
    ELSE IF _is_complex_query(q) THEN "complex"
    ELSE "default"

\* ---- queries
Q_how_to_authenticate_users == <<"h", "o", "w", " ", "t", "o", " ", "a", "u", "t", "h", "e", "n", "t", "i", "c", "a", "t", "e", " ", "u", "s", "e", "r", "s">>   \* 'how to authenticate users'
Q_APIRouter == <<"A", "P", "I", "R", "o", "u", "t", "e", "r">>   \* 'APIRouter'
Q_async_endpoint_function == <<"a", "s", "y", "n", "c", " ", "e", "n", "d", "p", "o", "i", "n", "t", " ", "f", "u", "n", "c", "t", "i", "o", "n">>   \* 'async endpoint function'
Q_routing == <<"r", "o", "u", "t", "i", "n", "g">>   \* 'routing'
Q_dependency_injection_pattern == <<"d", "e", "p", "e", "n", "d", "e", "n", "c", "y", " ", "i", "n", "j", "e", "c", "t", "i", "o", "n", " ", "p", "a", "t", "t", "e", "r", "n">>   \* 'dependency injection pattern'
Q_Request == <<"R", "e", "q", "u", "e", "s", "t">>   \* 'Request'
Q_how_to_add_middleware == <<"h", "o", "w", " ", "t", "o", " ", "a", "d", "d", " ", "m", "i", "d", "d", "l", "e", "w", "a", "r", "e">>   \* 'how to add middleware'
Q_empty == <<>>   \* ''
Q_blank == <<" ", " ">>   \* '  '
Q_find_all == <<"f", "i", "n", "d", " ", "a", "l", "l", " ", "t", "h", "e", " ", "u", "s", "e", "r", " ", "l", "o", "g", "i", "n", " ", "c", "o", "d", "e">>   \* 'find all the user login code'
Q_api_key == <<"a", "p", "i", " ", "k", "e", "y">>   \* 'api key'

\* The router's self-test table (adaptive_search.py) and test_adaptive.py
TestTableQueries ==
    {Q_how_to_authenticate_users, Q_APIRouter, Q_async_endpoint_function,
     Q_routing, Q_dependency_injection_pattern, Q_Request,
     Q_how_to_add_middleware}

RouteVocab ==
    <<<<"h", "o", "w">>,
      <<"t", "o">>,
      <<"s", "h", "o", "w">>,
      <<"a", "p", "i">>,
      <<"a", "s", "y", "n", "c">>,
      <<"u", "s", "e", "r", "s">>>>

WordLists == UNION {[1..n -> 1..Len(RouteVocab)] : n \in 0..MaxWords}

GeneratedQueries == {Join([i \in 1..Len(ws) |-> RouteVocab[ws[i]]]) : ws \in WordLists}

RouteQueries == TestTableQueries \cup {Q_blank, Q_find_all} \cup GeneratedQueries

\* ------------------------------------------------------- QueryClassifier
semantic_indicators ==
    {<<"h", "o", "w", " ", "t", "o">>,
     <<"h", "o", "w", " ", "d", "o">>,
     <<"h", "o", "w", " ", "c", "a", "n">>,
     <<"h", "o", "w", " ", "s", "h", "o", "u", "l", "d">>,
     <<"w", "h", "a", "t", " ", "i", "s">>,
     <<"w", "h", "a", "t", " ", "a", "r", "e">>,
     <<"w", "h", "a", "t", " ", "d", "o", "e", "s">>,
     <<"w", "h", "y", " ", "d", "o", "e", "s">>,
     <<"w", "h", "y", " ", "i", "s">>,
     <<"w", "h", "y", " ", "s", "h", "o", "u", "l", "d">>,
     <<"w", "h", "e", "n", " ", "t", "o">>,
     <<"w", "h", "e", "n", " ", "s", "h", "o", "u", "l", "d">>,
     <<"w", "h", "e", "r", "e", " ", "t", "o">>,
     <<"w", "h", "e", "r", "e", " ", "c", "a", "n">>,
     <<"b", "e", "s", "t", " ", "w", "a", "y">>,
     <<"e", "x", "p", "l", "a", "i", "n">>,
     <<"g", "u", "i", "d", "e">>,
     <<"t", "u", "t", "o", "r", "i", "a", "l">>}

code_patterns ==
    {<<"a", "s", "y", "n", "c">>,
     <<"a", "w", "a", "i", "t">>,
     <<"d", "e", "f">>,
     <<"c", "l", "a", "s", "s">>,
     <<"d", "e", "c", "o", "r", "a", "t", "o", "r">>,
     <<"c", "o", "n", "t", "e", "x", "t", " ", "m", "a", "n", "a", "g", "e", "r">>,
     <<"g", "e", "n", "e", "r", "a", "t", "o", "r">>,
     <<"l", "a", "m", "b", "d", "a">>,
     <<"c", "o", "m", "p", "r", "e", "h", "e", "n", "s", "i", "o", "n">>,
     <<"i", "t", "e", "r", "a", "t", "o", "r">>}

python_specifics ==
    {<<"E", "x", "c", "e", "p", "t", "i", "o", "n">>,
     <<"E", "r", "r", "o", "r">>,
     <<"M", "o", "d", "e", "l">>,
     <<"R", "o", "u", "t", "e", "r">>,
     <<"R", "e", "q", "u", "e", "s", "t">>,
     <<"R", "e", "s", "p", "o", "n", "s", "e">>,
     <<"H", "a", "n", "d", "l", "e", "r">>,
     <<"M", "i", "d", "d", "l", "e", "w", "a", "r", "e">>}

IsUpperAZ(c) == c \in DOMAIN UpperToLower
IsLowerAZ(c) == \E u \in DOMAIN UpperToLower : UpperToLower[u] = c

endswith(s, suffix) ==
    Len(s) >= Len(suffix) /\ SubSeq(s, Len(s) - Len(suffix) + 1, Len(s)) = suffix

_is_specific_term(q) ==
    /\ Len(split(q)) <= 2
    /\ \/ \E i \in 1..(Len(q) - 1) : IsLowerAZ(q[i]) /\ IsUpperAZ(q[i + 1])
       \/ Contains(q, <<"_">>) /\ ~Contains(q, <<" ">>)
       \/ \E suffix \in python_specifics : endswith(q, suffix)

_is_semantic_query(q) ==
    \/ \E indicator \in semantic_indicators : Contains(lower(q), indicator)
    \/ Len(split(q)) > 6
    \/ Contains(q, <<"?">>)

_is_code_pattern(q) == \E pattern \in code_patterns : Contains(lower(q), pattern)

\* A classifier that tests the semantic rule before the specific-term rule
classify_SemanticFirst(q0) ==
    LET q == strip(q0)
    IN IF _is_semantic_query(q) THEN "semantic"
       ELSE IF _is_specific_term(q) THEN "specific_term"
       ELSE IF _is_code_pattern(q) THEN "code_pattern"
       ELSE "concept"

classify(q0) ==
    LET q == strip(q0)
    IN IF _is_specific_term(q) THEN "specific_term"
       ELSE IF _is_semantic_query(q) THEN "semantic"
       ELSE IF _is_code_pattern(q) THEN "code_pattern"
       ELSE "concept"

MkConfig(ub, uv, wb, wv, ue, ur) ==
    [use_bm25 |-> ub, use_vector |-> uv, bm25_weight |-> wb,
     vector_weight |-> wv, use_expansion |-> ue, use_reranking |-> ur]

\* A table in which code_pattern weighs both sources alike
get_search_config_EqualWeights(qtype) ==
    CASE qtype = "specific_term" -> MkConfig(TRUE, FALSE, 10, 0, FALSE, FALSE)
      [] qtype = "semantic" -> MkConfig(TRUE, TRUE, 10, 10, FALSE, TRUE)
      [] qtype = "concept" -> MkConfig(TRUE, TRUE, 10, 10, TRUE, TRUE)
      [] qtype = "code_pattern" -> MkConfig(TRUE, TRUE, 10, 10, FALSE, TRUE)

get_search_config(qtype) ==
    CASE qtype = "specific_term" -> MkConfig(TRUE, FALSE, 10, 0, FALSE, FALSE)
      [] qtype = "semantic" -> MkConfig(TRUE, TRUE, 10, 10, FALSE, TRUE)
      [] qtype = "concept" -> MkConfig(TRUE, TRUE, 10, 10, TRUE, TRUE)
      [] qtype = "code_pattern" -> MkConfig(TRUE, TRUE, 7, 10, FALSE, TRUE)

\* HybridSearch.search, the else branch of the config resolution
DefaultConfig == MkConfig(TRUE, TRUE, 10, 10, TRUE, TRUE)

\* ------------------------------------------------------------ BM25Search
IsWordChar(c) == c \notin {" ", "?"}

\* BM25Search._tokenize: lower, \b\w+\b, keep tokens of length >= 2
_tokenize(text) ==
    LET words == split([i \in 1..Len(text) |->
                          IF IsWordChar(text[i]) THEN lower(text)[i] ELSE " "])
    IN SelectSeq(words, LAMBDA w : Len(w) >= 2)

\* The documents with a positive BM25 score, best first.  A query without
\* tokens scores every document 0; a paraphrase (v > 0) is an unknown string.
Bm25Rankings(q, v) ==
    IF v = 0 /\ _tokenize(q) = <<>> THEN {<<>>} ELSE RankedLists(IndexDocs)

\* BM25Search.search lines 48-62 on a built index:
\* scores.argsort()[-top_k:][::-1], and [-0:] is the whole array
bm25_search(ranking, top_k) ==
    LET top == IF top_k = 0 THEN ranking ELSE Take(ranking, top_k)
    IN [i \in 1..Len(top) |-> Bm25Chunk(top[i])]

\* ------------------------------------------------------------ Dense Index
\* VectorStore.search: the collection returns at most n_results neighbours
VectorReturns(n) ==
    {[i \in 1..Len(s) |-> VectorChunk(s[i])] :
        s \in {r \in RankedLists(IndexDocs) : Len(r) <= n}}

\* --------------------------------------------------------------- Reranker
RerankScores == {1, 2}

Truthy(top_k) == top_k # NoneVal /\ top_k # 0

\* Reranker.rerank lines 22-37, scores being what model.predict returned
rerank(results, scores, top_k) ==
    IF results = <<>> THEN <<>>
    ELSE
      LET scored == [i \in 1..Len(results) |->
                       [id |-> results[i].id, src |-> results[i].src,
                        rrf_score |-> results[i].rrf_score,
                        bm25_rank |-> results[i].bm25_rank,
                        vector_rank |-> results[i].vector_rank,
                        rerank_score |-> scores[results[i].id]]]
          reranked == SortDesc(scored, "rerank_score")
      IN IF Truthy(top_k) THEN Take(reranked, top_k) ELSE reranked

\* ----------------------------------------------------------- HybridSearch
SearchQueries ==
    {Q_empty, Q_blank, Q_routing, Q_APIRouter, Q_how_to_add_middleware,
     Q_async_endpoint_function, Q_find_all, Q_api_key}

NResults == 0..MaxN

Call(svc, q, n) == [svc |-> svc, q |-> q, n |-> n]

\* A fold across variants that adds the scores up
RECURSIVE FoldResults_Summed(_, _, _)
FoldResults_Summed(all, m, i) ==
    IF i > Len(m) THEN all
    ELSE
      LET result == m[i]
          p == KeyPos(all, result.id)
          all1 == IF p = 0 THEN Append(all, result)
                  ELSE [all EXCEPT ![p].rrf_score = @ + result.rrf_score]
      IN FoldResults_Summed(all1, m, i + 1)

\* A fold across variants that keeps every occurrence
RECURSIVE FoldResults_KeepAll(_, _, _)
FoldResults_KeepAll(all, m, i) ==
    IF i > Len(m) THEN all
    ELSE FoldResults_KeepAll(Append(all, m[i]), m, i + 1)

\* HybridSearch.search lines 63-68: keep the higher-scored occurrence
RECURSIVE FoldResults(_, _, _)
FoldResults(all, m, i) ==
    IF i > Len(m) THEN all
    ELSE
      LET result == m[i]
          p == KeyPos(all, result.id)
          all1 == IF p = 0 THEN Append(all, result)
                  ELSE IF result.rrf_score > all[p].rrf_score
                       THEN [all EXCEPT ![p] = result]
                       ELSE all
      IN FoldResults(all1, m, i + 1)

\* A config resolution that never asks the classifier
ResolveConfig_IgnoresClassifier(q, uc, has_classifier) == DefaultConfig

\* HybridSearch.search lines 19-33
ResolveConfig(q, uc, has_classifier) ==
    IF uc /\ has_classifier THEN get_search_config(classify(q)) ELSE DefaultConfig

\* signal.alarm(0) leaves the alarm pending
AlarmAfterCancel_StillPending == TRUE

\* RAGPipeline.query line 269: signal.alarm(0) cancels the pending alarm
AlarmAfterCancel == FALSE

\* The end of a search call.  Under RAGPipeline.query (line 266) the alarm set
\* at line 263 is still pending when the search returns or raises: the
\* finally clause that cancels it (lines 267-269) has yet to run.
EndCall(e, outcome, result) ==
    /\ pc' = IF e # "pipeline" THEN outcome
             ELSE IF outcome = "raised" THEN "cancel_raised" ELSE "cancel"
    /\ final' = IF outcome = "raised" THEN <<>> ELSE result
    /\ alarm' = (e = "pipeline")
    /\ pipeline_error' = ""

\* Entering HybridSearch.search: lines 19-38 up to the expander call.
EnterHybrid(e, q, n, uc, ur, has_expander, has_classifier) ==
    LET cfg == ResolveConfig(q, uc, has_classifier)
    IN /\ entry' = e
       /\ query' = q
       /\ n_results' = n
       /\ use_classifier' = uc
       /\ use_reranker' = ur
       /\ config' = cfg
       /\ queries' = <<0>>
       /\ qi' = 1
       /\ all_results' = <<>>
       /\ final' = <<>>
       /\ pc' = IF cfg.use_expansion /\ has_expander THEN "expand" ELSE "retrieve"
       /\ calls' = <<>>
       /\ pipeline_error' = ""

\* HybridSearch.search called directly
CallHybrid ==
    /\ pc = "idle"
    /\ \E q \in SearchQueries, n \in NResults, uc \in BOOLEAN, ur \in BOOLEAN :
         EnterHybrid("hybrid", q, n, uc, ur, query_expander, query_classifier)
    /\ UNCHANGED <<mergeVars, query_lower, route, routePc, envVars, alarm>>
    /\ UNCHANGED <<classVars, embedVars, auxVars>>

\* AdaptiveSearch.search lines 66-90.  Its own HybridSearch (lines 45-49) has
\* the reranker, no expander and no classifier.
AdaptiveBody(e, q, n) ==
    LET ql == strip(lower(q))
        r == _determine_route(ql)
    IN /\ query_lower' = ql
       /\ route' = r
       /\ IF r = "specific_term"
          THEN /\ \E res \in VectorReturns(n) : EndCall(e, "returned", res)
               /\ entry' = e
               /\ query' = q
               /\ n_results' = n
               /\ calls' = <<Call("vector", 0, n)>>
               /\ UNCHANGED <<use_classifier, use_reranker, config, queries, qi,
                              all_results>>
          ELSE /\ EnterHybrid(e, q, n, TRUE, r = "complex" /\ reranker, FALSE, FALSE)
               /\ alarm' = (e = "pipeline")

CallAdaptive ==
    /\ pc = "idle"
    /\ \E q \in SearchQueries, n \in NResults : AdaptiveBody("adaptive", q, n)
    /\ UNCHANGED <<mergeVars, routePc, envVars>>
    /\ UNCHANGED <<classVars, embedVars, auxVars>>

\* A validation that forgets the whitespace-only question
QuestionRejected_EmptyOnly(question) == question = <<>>

\* RAGPipeline.query line 237: not question or not question.strip()
QuestionRejected(question) == question = <<>> \/ strip(question) = <<>>

\* RAGPipeline.query lines 236-266: validation, alarm, self.search.search
CallPipeline ==
    /\ pc = "idle"
    /\ reranker                  \* RAGPipeline.__init__ always builds a Reranker
    /\ ~query_expander
    /\ ~query_classifier
    /\ \E q \in SearchQueries, n \in NResults :
         IF QuestionRejected(q)
         THEN /\ entry' = "pipeline"
              /\ query' = q
              /\ n_results' = n
              /\ pc' = "returned"
              /\ final' = <<>>
              /\ calls' = <<>>
              /\ pipeline_error' = "empty_query"
              /\ UNCHANGED <<query_lower, route, use_classifier, use_reranker,
                             config, queries, qi, all_results, alarm>>
         ELSE AdaptiveBody("pipeline", q, n)
    /\ UNCHANGED <<mergeVars, routePc, envVars>>
    /\ UNCHANGED <<classVars, embedVars, auxVars>>

\* QueryExpander.expand lines 29-58, called from HybridSearch.search line 36
\* The paraphrases that pass _filter_variations are opaque strings: the i-th
\* one is written i.
Variations == {[i \in 1..n |-> i] : n \in 0..MaxVariations}

CountSpaces(q) == Cardinality({i \in 1..Len(q) : q[i] = " "})

\* An expand whose except branch caches the fallback list
expand_CachesFallback(q, c) ==
    IF c[q] # <<>> THEN {[ret |-> c[q], cache |-> c, path |-> "cache"]}
    ELSE IF CountSpaces(q) + 1 > 5
    THEN {[ret |-> <<0>>, cache |-> c, path |-> "skip"]}
    ELSE {[ret |-> <<0>> \o filtered_variations,
           cache |-> [c EXCEPT ![q] = <<0>> \o filtered_variations],
           path |-> "llm"] : filtered_variations \in Variations}
         \cup {[ret |-> <<0>>, cache |-> [c EXCEPT ![q] = <<0>>],
                path |-> "exception"]}

\* QueryExpander.expand lines 29-58 on cache c: every outcome, as the list
\* returned, the cache left behind and the branch taken.  An empty response
\* text parses to no variation (line 45), the LLM path with <<>>.
expand(q, c) ==
    IF c[q] # <<>> THEN {[ret |-> c[q], cache |-> c, path |-> "cache"]}
    ELSE IF CountSpaces(q) + 1 > 5
    THEN {[ret |-> <<0>>, cache |-> c, path |-> "skip"]}
    ELSE {[ret |-> <<0>> \o filtered_variations,
           cache |-> [c EXCEPT ![q] = <<0>> \o filtered_variations],
           path |-> "llm"] : filtered_variations \in Variations}
         \cup {[ret |-> <<0>>, cache |-> c, path |-> "exception"]}

\* HybridSearch.search line 36: queries = self.query_expander.expand(query)
Expand ==
    /\ pc = "expand"
    /\ \E o \in expand(query, expander_cache) :
         /\ queries' = o.ret
         /\ expander_cache' = o.cache
    /\ pc' = "retrieve"
    /\ calls' = Append(calls, Call("expand", 0, 3))
    /\ UNCHANGED <<mergeVars, routeVars, reranker, query_expander, query_classifier,
                   bm25_built, entry, n_results, use_classifier, use_reranker,
                   config, qi, all_results, final, alarm, pipeline_error>>
    /\ UNCHANGED <<classVars, embedVars, auxVars>>

\* A retrieval depth of three times n_results when reranking is configured
RetrieveK_Tripled(cfg, n) == IF cfg.use_reranking THEN n * 3 ELSE n

\* HybridSearch.search line 42: retrieve_k
RetrieveK(cfg, n) == IF cfg.use_reranking THEN n * 2 ELSE n

\* One iteration of the for loop, HybridSearch.search lines 41-68.
\* BM25Search.search line 44 tests hasattr(self, 'bm25'), which __init__
\* makes true, so an index that was never built raises at line 49.
RetrieveVariant ==
    /\ pc = "retrieve"
    /\ qi <= Len(queries)
    /\ LET q == queries[qi]
           retrieve_k == RetrieveK(config, n_results)
       IN IF config.use_bm25 /\ ~bm25_built
          THEN /\ EndCall(entry, "raised", <<>>)
               /\ calls' = Append(calls, Call("bm25", q, retrieve_k))
               /\ merged' = <<>>
               /\ UNCHANGED <<mergeInputs, qi, all_results>>
          ELSE \E b \in (IF config.use_bm25
                          THEN {bm25_search(ranking, retrieve_k) :
                                   ranking \in Bm25Rankings(query, q)}
                          ELSE {<<>>}),
                  vres \in (IF config.use_vector THEN VectorReturns(retrieve_k)
                                                 ELSE {<<>>}) :
                 LET m == _merge_results(b, vres, config.bm25_weight,
                                         config.vector_weight, k)
                 IN /\ merged' = m
                    /\ all_results' = FoldResults(all_results, m, 1)
                    /\ calls' = calls
                         \o (IF config.use_bm25
                             THEN <<Call("bm25", q, retrieve_k)>> ELSE <<>>)
                         \o (IF config.use_vector
                             THEN <<Call("vector", q, retrieve_k)>> ELSE <<>>)
                    /\ qi' = qi + 1
                    /\ UNCHANGED <<mergeInputs, pc, final, alarm, pipeline_error>>
    /\ UNCHANGED <<routeVars, envVars, entry, n_results, use_classifier,
                   use_reranker, config, queries>>
    /\ UNCHANGED <<classVars, embedVars, auxVars>>

\* HybridSearch.search lines 70-78.  The use_reranker parameter is not read.
FinishSearch ==
    /\ pc = "retrieve"
    /\ qi > Len(queries)
    /\ LET sorted == SortDesc(all_results, "rrf_score")
       IN IF config.use_reranking /\ reranker /\ Len(sorted) > 0
          THEN /\ calls' = Append(calls, Call("rerank", 0, n_results))
               /\ \/ \E scores \in [IndexDocs -> RerankScores] :
                       EndCall(entry, "returned", rerank(sorted, scores, n_results))
                  \/ EndCall(entry, "raised", <<>>)   \* model.predict raised
          ELSE /\ EndCall(entry, "returned", Take(sorted, n_results))
               /\ UNCHANGED calls
    /\ merged' = <<>>
    /\ UNCHANGED <<mergeInputs, routeVars, envVars, entry, n_results, use_classifier,
                   use_reranker, config, queries, qi, all_results>>
    /\ UNCHANGED <<classVars, embedVars, auxVars>>

\* RAGPipeline.query lines 257-258 and 271-278: SIGALRM fires while the alarm
\* is pending, in the search or before the finally clause has cancelled it;
\* the handler raises TimeoutError, which also replaces an exception that
\* was on its way out of the search.
PipelineTimeout ==
    /\ alarm
    /\ pc \in {"expand", "retrieve", "cancel", "cancel_raised"}
    /\ pc' = "returned"
    /\ final' = <<>>
    /\ alarm' = FALSE
    /\ pipeline_error' = "timeout"
    /\ merged' = <<>>
    /\ UNCHANGED <<mergeInputs, routeVars, envVars, entry, n_results, use_classifier,
                   use_reranker, config, queries, qi, all_results, calls>>
    /\ UNCHANGED <<classVars, embedVars, auxVars>>

\* RAGPipeline.query lines 267-297: the finally clause cancels the alarm; an
\* exception becomes 'retrieval_error', an empty list 'no_results'.
CancelAlarm ==
    /\ pc \in {"cancel", "cancel_raised"}
    /\ alarm' = AlarmAfterCancel
    /\ pc' = "returned"
    /\ pipeline_error' = IF pc = "cancel_raised" THEN "retrieval_error"
                         ELSE IF final = <<>> THEN "no_results"
                         ELSE "None"
    /\ UNCHANGED <<mergeVars, routeVars, envVars, entry, n_results, use_classifier,
                   use_reranker, config, queries, qi, all_results, final, calls>>
    /\ UNCHANGED <<classVars, embedVars, auxVars>>

\* ------------------------------------------------------------ idle parts
RouteIdle ==
    /\ query = <<>>
    /\ query_lower = <<>>
    /\ route = ""
    /\ routePc = "off"

MergeIdle ==
    /\ bm25_results = <<>>
    /\ vector_results = <<>>
    /\ bm25_weight = 10
    /\ vector_weight = 10
    /\ k = DefaultK
    /\ merged = <<>>
    /\ mergePc = "off"

EnvIdle ==
    /\ reranker = FALSE
    /\ query_expander = FALSE
    /\ query_classifier = FALSE
    /\ bm25_built = FALSE
    /\ expander_cache = [q \in SearchQueries |-> <<>>]

CallIdle ==
    /\ entry = "none"
    /\ n_results = 0
    /\ use_classifier = FALSE
    /\ use_reranker = FALSE
    /\ config = DefaultConfig
    /\ queries = <<>>
    /\ qi = 1
    /\ all_results = <<>>
    /\ final = <<>>
    /\ calls = <<>>
    /\ alarm = FALSE
    /\ pipeline_error = ""

\* The classifier is not under test on its own
ClassIdle ==
    /\ query_type = ""
    /\ class_config = <<>>
    /\ classPc = "off"

\* Reranker.rerank is not under test on its own
RerankIdle ==
    /\ rr_results = <<>>
    /\ rr_scores = <<>>
    /\ rr_top_k = NoneVal
    /\ rr_reranked = <<>>
    /\ predict_calls = 0
    /\ rerankPc = "off"

\* No ConversationManager is constructed
ConvIdle ==
    /\ history = <<>>
    /\ max_history = 0
    /\ added = <<>>
    /\ conv_ret = NoneVal
    /\ convPc = "off"

AuxIdle ==
    /\ RerankIdle
    /\ expand_path = ""
    /\ ConvIdle

\* No Embedder is constructed
EmbedIdle ==
    /\ cache = <<>>
    /\ cache_size = 0
    /\ th = <<>>
    /\ model_calls = <<>>

InitSearch ==
    /\ MergeIdle
    /\ RouteIdle
    /\ reranker \in BOOLEAN
    /\ query_expander \in BOOLEAN
    /\ query_classifier \in BOOLEAN
    /\ bm25_built \in BOOLEAN
    /\ expander_cache = [q \in SearchQueries |-> <<>>]
    /\ CallIdle
    /\ pc = "idle"
    /\ ClassIdle
    /\ EmbedIdle
    /\ AuxIdle

NextSearch ==
    \/ CallHybrid
    \/ CallAdaptive
    \/ CallPipeline
    \/ Expand
    \/ RetrieveVariant
    \/ FinishSearch
    \/ PipelineTimeout
    \/ CancelAlarm

Spec == InitSearch /\ [][NextSearch]_vars

\* ------------- SpecAdaptive: the entry points AdaptiveSearch and RAGPipeline
\* AdaptiveSearch.__init__ builds its HybridSearch without expander and
\* classifier; RAGPipeline.__init__ always passes a Reranker.
InitAdaptive ==
    /\ MergeIdle
    /\ RouteIdle
    /\ reranker \in BOOLEAN
    /\ query_expander = FALSE
    /\ query_classifier = FALSE
    /\ bm25_built \in BOOLEAN
    /\ expander_cache = [q \in SearchQueries |-> <<>>]
    /\ CallIdle
    /\ pc = "idle"
    /\ ClassIdle
    /\ EmbedIdle
    /\ AuxIdle

NextAdaptive ==
    \/ CallAdaptive
    \/ CallPipeline
    \/ RetrieveVariant
    \/ FinishSearch
    \/ PipelineTimeout
    \/ CancelAlarm

SpecAdaptive == InitAdaptive /\ [][NextAdaptive]_vars

\* ------------------------------------------------- SpecMerge: pure function
BM25Lists == {[i \in 1..Len(s) |-> Bm25Chunk(s[i])] : s \in RankedLists(Docs)}
VectorLists == {[i \in 1..Len(s) |-> VectorChunk(s[i])] : s \in RankedLists(Docs)}

InitMerge ==
    /\ bm25_results \in BM25Lists
    /\ vector_results \in VectorLists
    /\ bm25_weight \in Weights
    /\ vector_weight \in Weights
    /\ k \in KValues
    /\ merged = <<>>
    /\ mergePc = "input"
    /\ RouteIdle
    /\ EnvIdle
    /\ CallIdle
    /\ pc = "off"
    /\ ClassIdle
    /\ EmbedIdle
    /\ AuxIdle

MergeCall ==
    /\ mergePc = "input"
    /\ merged' = _merge_results(bm25_results, vector_results,
                                bm25_weight, vector_weight, k)
    /\ mergePc' = "done"
    /\ UNCHANGED <<bm25_results, vector_results, bm25_weight, vector_weight, k,
                   routeVars, envVars, callVars>>
    /\ UNCHANGED <<classVars, embedVars, auxVars>>

NextMerge == MergeCall

SpecMerge == InitMerge /\ [][NextMerge]_vars

\* --------------------------------------- SpecRoute: the router on its own
\* AdaptiveSearch.search lines 66-69: lower, strip, _determine_route.
InitRoute ==
    /\ query \in RouteQueries
    /\ query_lower = <<>>
    /\ route = ""
    /\ routePc = "input"
    /\ MergeIdle
    /\ EnvIdle
    /\ CallIdle
    /\ pc = "off"
    /\ ClassIdle
    /\ EmbedIdle
    /\ AuxIdle

DetermineRoute ==
    /\ routePc = "input"
    /\ query_lower' = strip(lower(query))
    /\ route' = _determine_route(strip(lower(query)))
    /\ routePc' = "done"
    /\ UNCHANGED <<query, mergeVars, envVars, callVars>>
    /\ UNCHANGED <<classVars, embedVars, auxVars>>

NextRoute == DetermineRoute

SpecRoute == InitRoute /\ [][NextRoute]_vars

\* ------------------------------ SpecClassify: QueryClassifier.classify
Q_authenticate_user == <<"a", "u", "t", "h", "e", "n", "t", "i", "c", "a", "t", "e", "_", "u", "s", "e", "r">>   \* 'authenticate_user'
Q_what_is_dependency_injection == <<"w", "h", "a", "t", " ", "i", "s", " ", "d", "e", "p", "e", "n", "d", "e", "n", "c", "y", " ", "i", "n", "j", "e", "c", "t", "i", "o", "n">>   \* 'what is dependency injection'
Q_context_manager_example == <<"c", "o", "n", "t", "e", "x", "t", " ", "m", "a", "n", "a", "g", "e", "r", " ", "e", "x", "a", "m", "p", "l", "e">>   \* 'context manager example'
Q_seven_words == <<"l", "i", "s", "t", " ", "t", "h", "e", " ", "u", "s", "e", "r", "s", " ", "o", "f", " ", "o", "n", "e", " ", "a", "p", "i", " ", "k", "e", "y">>   \* 'list the users of one api key'

\* test_classifier.py test_cases, one of each expected type
ClassifierTestQueries ==
    {Q_APIRouter, Q_authenticate_user, Q_what_is_dependency_injection,
     Q_routing, Q_context_manager_example, Q_async_endpoint_function}

\* Words that carry one surface feature each: indicator parts, code keywords,
\* a question mark, CamelCase, snake_case, a technical suffix.
ClassVocab ==
    <<<<"h", "o", "w">>,
      <<"t", "o">>,
      <<"a", "s", "y", "n", "c">>,
      <<"a", "w", "a", "i", "t", "?">>,
      <<"A", "P", "I", "R", "o", "u", "t", "e", "r">>,
      <<"u", "s", "e", "r", "_", "i", "d">>,
      <<"E", "r", "r", "o", "r">>>>

ClassWordLists == UNION {[1..n -> 1..Len(ClassVocab)] : n \in 0..MaxWords}

ClassifyQueries ==
    ClassifierTestQueries \cup {Q_empty, Q_blank, Q_seven_words}
    \cup {Join([i \in 1..Len(ws) |-> ClassVocab[ws[i]]]) : ws \in ClassWordLists}

QueryTypes == {"specific_term", "semantic", "concept", "code_pattern"}

InitClassify ==
    /\ query \in ClassifyQueries
    /\ query_lower = <<>>
    /\ route = ""
    /\ routePc = "off"
    /\ query_type = ""
    /\ class_config = <<>>
    /\ classPc = "input"
    /\ MergeIdle
    /\ EnvIdle
    /\ CallIdle
    /\ pc = "off"
    /\ EmbedIdle
    /\ AuxIdle

\* QueryClassifier.classify, as HybridSearch.search line 20 calls it
Classify ==
    /\ classPc = "input"
    /\ query_type' = classify(query)
    /\ classPc' = "classified"
    /\ UNCHANGED <<class_config, mergeVars, routeVars, envVars, callVars, embedVars,
                   auxVars>>

NextClassify == Classify

SpecClassify == InitClassify /\ [][NextClassify]_vars

\* --------------------- SpecConfig: QueryClassifier.get_search_config
InitConfig ==
    /\ query_type \in QueryTypes
    /\ class_config = <<>>
    /\ classPc = "config"
    /\ RouteIdle
    /\ MergeIdle
    /\ EnvIdle
    /\ CallIdle
    /\ pc = "off"
    /\ EmbedIdle
    /\ AuxIdle

\* get_search_config builds the configs dict anew on every call (lines 46-81)
\* and returns one of its values.
GetSearchConfig ==
    /\ classPc \in {"config", "returned", "mutated", "returned_again"}
    /\ class_config' = get_search_config(query_type)
    /\ classPc' = IF classPc = "mutated" THEN "returned_again" ELSE "returned"
    /\ UNCHANGED <<query_type, mergeVars, routeVars, envVars, callVars, embedVars,
                   auxVars>>

\* The caller writes into the dict it was handed.
MutateConfig ==
    /\ classPc \in {"returned", "mutated", "returned_again"}
    /\ \/ \E f \in {"use_bm25", "use_vector", "use_expansion", "use_reranking"} :
             class_config' = [class_config EXCEPT ![f] = ~@]
       \/ \E f \in {"bm25_weight", "vector_weight"}, w \in Weights :
             class_config' = [class_config EXCEPT ![f] = w]
    /\ classPc' = "mutated"
    /\ UNCHANGED <<query_type, mergeVars, routeVars, envVars, callVars, embedVars,
                   auxVars>>

NextConfig == GetSearchConfig \/ MutateConfig

SpecConfig == InitConfig /\ [][NextConfig]_vars

\* ---------------------------------------------------------------- Embedder
EmbedTexts == {"a", "b", "c"}

\* cache_size as passed to Embedder.__init__, at least 1
CacheSizes == {1, 2}

\* hashlib.md5(text.encode()).hexdigest(): one digest per text
_get_text_hash(text) == <<"md5", text>>

\* The row self.model.encode computes for one text
Embedding(text) == <<"vec", text>>

\* A row of np.zeros
ZeroRow == <<"zeros">>

\* self.model.encode(uncached_texts, convert_to_numpy=True)
encode(texts) == [n \in 1..Len(texts) |-> Embedding(texts[n])]

\* What embed can be called with: one string or a list of strings
EmbedInputs ==
    {[single |-> TRUE, texts |-> <<x>>] : x \in EmbedTexts}
    \cup {[single |-> FALSE, texts |-> l] :
             l \in UNION {[1..n -> EmbedTexts] : n \in 0..MaxBatch}}

\* Position of a key in the cache dict, 0 if absent
CachePos(c, h) ==
    IF \E n \in 1..Len(c) : c[n].hash = h
    THEN CHOOSE n \in 1..Len(c) : c[n].hash = h
    ELSE 0

CacheKeys(c) == {c[n].hash : n \in 1..Len(c)}

\* del self.cache[key]
CacheDel(c, h) == SelectSeq(c, LAMBDA e : e.hash # h)

\* An eviction that picks the key inserted last
OldestKey_Newest(c) == c[Len(c)].hash

\* next(iter(self.cache)): the first key in insertion order
OldestKey(c) == c[1].hash

\* A store that is lost
CacheSet_Dropped(c, h, e) == c

\* self.cache[text_hash] = embedding: a new key goes last, a key already
\* there keeps its place
CacheSet(c, h, e) ==
    IF CachePos(c, h) = 0 THEN Append(c, [hash |-> h, emb |-> e])
    ELSE [c EXCEPT ![CachePos(c, h)].emb = e]

\* A reconstruction that lays the new rows out before the cached ones
Reassemble_MissesFirst(texts, cached_embeddings, uncached_indices, new_embeddings) ==
    [n \in 1..Len(texts) |->
        IF n <= Len(new_embeddings) THEN new_embeddings[n]
        ELSE cached_embeddings[n - Len(new_embeddings)].emb]

\* embed lines 64-70: all_embeddings, filled from cached_embeddings and from
\* zip(uncached_indices, new_embeddings); indices are 0-based
Reassemble(texts, cached_embeddings, uncached_indices, new_embeddings) ==
    [n \in 1..Len(texts) |->
        IF \E u \in 1..Len(uncached_indices) :
              uncached_indices[u] = n - 1 /\ u <= Len(new_embeddings)
        THEN new_embeddings[CHOOSE u \in 1..Len(uncached_indices) :
                                uncached_indices[u] = n - 1]
        ELSE IF \E h \in 1..Len(cached_embeddings) : cached_embeddings[h].i = n - 1
        THEN cached_embeddings[CHOOSE h \in 1..Len(cached_embeddings) :
                                  cached_embeddings[h].i = n - 1].emb
        ELSE ZeroRow]

\* A thread that is not inside embed.  start_keys, start_calls and prev
\* remember the cache keys and the number of model calls at the start of the
\* current call and the argument of the call before it.
IdleThread ==
    [pc |-> "idle", texts |-> <<>>, single_input |-> FALSE, i |-> 0,
     cached_embeddings |-> <<>>, uncached_texts |-> <<>>,
     uncached_indices |-> <<>>, new_embeddings |-> <<>>, j |-> 0,
     oldest_key |-> <<>>, result |-> <<>>, error |-> "", ncalls |-> 0,
     start_keys |-> {}, start_calls |-> 0, prev |-> <<>>]

RECURSIVE TotalCalls(_)
TotalCalls(t) == IF t = 0 THEN 0 ELSE th[t].ncalls + TotalCalls(t - 1)

EmbedFrame ==
    UNCHANGED <<cache_size, mergeVars, routeVars, envVars, callVars, classVars, auxVars>>

\* embed lines 26-35: a call starts
EmbedCall(t) ==
    /\ th[t].pc \in {"idle", "done"}
    /\ TotalCalls(Len(th)) < MaxEmbedCalls
    /\ \E inp \in EmbedInputs :
         th' = [th EXCEPT ![t] =
                  [IdleThread EXCEPT !.pc = "scan",
                                     !.texts = inp.texts,
                                     !.single_input = inp.single,
                                     !.ncalls = th[t].ncalls + 1,
                                     !.start_keys = CacheKeys(cache),
                                     !.start_calls = Len(model_calls),
                                     !.prev = th[t].texts]]
    /\ UNCHANGED <<cache, model_calls>>
    /\ EmbedFrame

\* embed lines 37-39, 41-43: the test text_hash in self.cache
ScanTest(t) ==
    /\ th[t].pc = "scan"
    /\ th[t].i < Len(th[t].texts)
    /\ LET text == th[t].texts[th[t].i + 1]
       IN IF _get_text_hash(text) \in CacheKeys(cache)
          THEN th' = [th EXCEPT ![t].pc = "scan_hit"]
          ELSE th' = [th EXCEPT ![t].uncached_texts = Append(@, text),
                                ![t].uncached_indices = Append(@, th[t].i),
                                ![t].i = @ + 1]
    /\ UNCHANGED <<cache, model_calls>>
    /\ EmbedFrame

\* embed line 40: self.cache[text_hash]; KeyError when the key has gone
ScanHit(t) ==
    /\ th[t].pc = "scan_hit"
    /\ LET text_hash == _get_text_hash(th[t].texts[th[t].i + 1])
           pos == CachePos(cache, text_hash)
       IN IF pos = 0
          THEN th' = [th EXCEPT ![t].pc = "failed", ![t].error = "KeyError"]
          ELSE th' = [th EXCEPT ![t].cached_embeddings =
                                    Append(@, [i |-> th[t].i, emb |-> cache[pos].emb]),
                                ![t].i = @ + 1,
                                ![t].pc = "scan"]
    /\ UNCHANGED <<cache, model_calls>>
    /\ EmbedFrame

\* embed lines 46-47, 53-54: the model is called with the uncached texts, or
\* not at all
Encode(t) ==
    /\ th[t].pc = "scan"
    /\ th[t].i = Len(th[t].texts)
    /\ IF th[t].uncached_texts # <<>>
       THEN /\ model_calls' = Append(model_calls, th[t].uncached_texts)
            /\ th' = [th EXCEPT ![t].new_embeddings = encode(th[t].uncached_texts),
                                ![t].j = 0,
                                ![t].pc = "update"]
       ELSE /\ th' = [th EXCEPT ![t].new_embeddings = <<>>, ![t].pc = "combine"]
            /\ UNCHANGED model_calls
    /\ UNCHANGED cache
    /\ EmbedFrame

\* _update_cache line 92: len(self.cache) >= self.cache_size
UpdateTest(t) ==
    /\ th[t].pc = "update"
    /\ th[t].j < Len(th[t].uncached_texts)
    /\ th' = [th EXCEPT ![t].pc = IF Len(cache) >= cache_size
                                  THEN "evict_next" ELSE "store"]
    /\ UNCHANGED <<cache, model_calls>>
    /\ EmbedFrame

\* _update_cache line 94: next(iter(self.cache)); StopIteration when empty
EvictNext(t) ==
    /\ th[t].pc = "evict_next"
    /\ IF cache = <<>>
       THEN th' = [th EXCEPT ![t].pc = "failed", ![t].error = "StopIteration"]
       ELSE th' = [th EXCEPT ![t].oldest_key = OldestKey(cache),
                             ![t].pc = "evict_del"]
    /\ UNCHANGED <<cache, model_calls>>
    /\ EmbedFrame

\* _update_cache line 95: del self.cache[oldest_key]; KeyError when absent
EvictDel(t) ==
    /\ th[t].pc = "evict_del"
    /\ IF th[t].oldest_key \in CacheKeys(cache)
       THEN /\ cache' = CacheDel(cache, th[t].oldest_key)
            /\ th' = [th EXCEPT ![t].pc = "store"]
       ELSE /\ th' = [th EXCEPT ![t].pc = "failed", ![t].error = "KeyError"]
            /\ UNCHANGED cache
    /\ UNCHANGED model_calls
    /\ EmbedFrame

\* _update_cache line 97, then the next pair of the loop at embed line 50
Store(t) ==
    /\ th[t].pc = "store"
    /\ cache' = CacheSet(cache, _get_text_hash(th[t].uncached_texts[th[t].j + 1]),
                         th[t].new_embeddings[th[t].j + 1])
    /\ th' = [th EXCEPT ![t].j = @ + 1, ![t].pc = "update"]
    /\ UNCHANGED model_calls
    /\ EmbedFrame

\* embed lines 57-72: the return value
Combine(t) ==
    /\ \/ th[t].pc = "combine"
       \/ th[t].pc = "update" /\ th[t].j = Len(th[t].uncached_texts)
    /\ th' = [th EXCEPT
                ![t].pc = "done",
                ![t].result =
                    IF th[t].single_input
                    THEN IF th[t].cached_embeddings # <<>>
                         THEN th[t].cached_embeddings[1].emb
                         ELSE th[t].new_embeddings[1]
                    ELSE IF Len(th[t].cached_embeddings) > 0
                            \/ Len(th[t].new_embeddings) > 0
                         THEN Reassemble(th[t].texts, th[t].cached_embeddings,
                                         th[t].uncached_indices, th[t].new_embeddings)
                         ELSE <<>>]
    /\ UNCHANGED <<cache, model_calls>>
    /\ EmbedFrame

EmbedStep(t) ==
    \/ EmbedCall(t)
    \/ ScanTest(t)
    \/ ScanHit(t)
    \/ Encode(t)
    \/ UpdateTest(t)
    \/ EvictNext(t)
    \/ EvictDel(t)
    \/ Store(t)
    \/ Combine(t)

\* ------------------------------- SpecEmbed: one caller of Embedder.embed
EmbedInit(threads) ==
    /\ cache = <<>>
    /\ cache_size \in CacheSizes
    /\ th = threads
    /\ model_calls = <<>>
    /\ MergeIdle
    /\ RouteIdle
    /\ EnvIdle
    /\ CallIdle
    /\ pc = "off"
    /\ ClassIdle
    /\ AuxIdle

InitEmbed == EmbedInit(<<IdleThread>>)

NextEmbed == EmbedStep(1)

SpecEmbed == InitEmbed /\ [][NextEmbed]_vars

\* ------------- SpecEmbedThreads: two threads share one Embedder, no lock
InitEmbedThreads == EmbedInit(<<IdleThread, IdleThread>>)

NextEmbedThreads == \E t \in 1..2 : EmbedStep(t)

SpecEmbedThreads == InitEmbedThreads /\ [][NextEmbedThreads]_vars

\* ------------ SpecFusion: the fusion function and the searches that use it
SpecFusion == (InitMerge \/ InitSearch) /\ [][NextMerge \/ NextSearch]_vars

\* ------------------ SpecRerank: Reranker.rerank as a function under test
\* The candidates a search passes on: fused records with distinct ids
RerankInputs == {_merge_results(b, <<>>, 10, 10, DefaultK) : b \in BM25Lists}

\* top_k: absent, zero, below, at and above the length of the list
TopKs == {NoneVal} \cup (0..(NumDocs + 1))

\* A rerank that asks the cross-encoder whatever the list holds
PredictCalls_Always(results) == 1

\* Reranker.rerank lines 22-27: self.model.predict runs unless results == []
PredictCalls(results) == IF results = <<>> THEN 0 ELSE 1

InitRerank ==
    /\ rr_results \in RerankInputs
    /\ rr_scores \in [Docs -> RerankScores]
    /\ rr_top_k \in TopKs
    /\ rr_reranked = <<>>
    /\ predict_calls = 0
    /\ rerankPc = "input"
    /\ MergeIdle
    /\ RouteIdle
    /\ EnvIdle
    /\ CallIdle
    /\ pc = "off"
    /\ ClassIdle
    /\ EmbedIdle
    /\ expand_path = ""
    /\ ConvIdle

\* One call of Reranker.rerank, lines 15-37; model.predict may raise
RerankCall ==
    /\ rerankPc = "input"
    /\ predict_calls' = predict_calls + PredictCalls(rr_results)
    /\ \/ /\ rr_reranked' = rerank(rr_results, rr_scores, rr_top_k)
          /\ rerankPc' = "returned"
       \/ /\ PredictCalls(rr_results) > 0
          /\ rerankPc' = "raised"
          /\ UNCHANGED rr_reranked
    /\ UNCHANGED <<rr_results, rr_scores, rr_top_k>>
    /\ UNCHANGED <<mergeVars, routeVars, envVars, callVars, classVars, embedVars,
                   expandVars, convVars>>

NextRerank == RerankCall

SpecRerank == InitRerank /\ [][NextRerank]_vars

\* ---- SpecRerankSearch: the reranker alone and the searches that call it
SpecRerankSearch == (InitRerank \/ InitSearch) /\ [][NextRerank \/ NextSearch]_vars

\* ------------- SpecExpand: one QueryExpander serving a sequence of calls
\* An empty query, a one-word query, a four-word query and a seven-word one
ExpandQueries == {Q_empty, Q_routing, Q_how_to_add_middleware, Q_seven_words}

\* QueryExpander.__init__ line 17: self.cache = {}
InitExpand ==
    /\ MergeIdle
    /\ RouteIdle
    /\ reranker = FALSE
    /\ query_expander = TRUE
    /\ query_classifier = FALSE
    /\ bm25_built = FALSE
    /\ expander_cache = [q \in ExpandQueries |-> <<>>]
    /\ CallIdle
    /\ pc = "expander"
    /\ ClassIdle
    /\ EmbedIdle
    /\ RerankIdle
    /\ expand_path = ""
    /\ ConvIdle

\* One call of QueryExpander.expand, lines 20-58
ExpandCall ==
    /\ pc = "expander"
    /\ \E q \in ExpandQueries :
         \E o \in expand(q, expander_cache) :
            /\ query' = q
            /\ queries' = o.ret
            /\ expander_cache' = o.cache
            /\ expand_path' = o.path
    /\ UNCHANGED <<mergeVars, query_lower, route, routePc, reranker, query_expander,
                   query_classifier, bm25_built, entry, n_results, use_classifier,
                   use_reranker, config, qi, all_results, final, pc, calls, alarm,
                   pipeline_error>>
    /\ UNCHANGED <<classVars, embedVars, rerankVars, convVars>>

NextExpand == ExpandCall

SpecExpand == InitExpand /\ [][NextExpand]_vars

\* ---- SpecExpandSearch: the expander alone and the searches that call it
SpecExpandSearch == (InitExpand \/ InitSearch) /\ [][NextExpand \/ NextSearch]_vars

\* ----- SpecSearchLive: a search whose expander waits for the LLM service
\* QueryExpander.expand line 42 blocks in self.client.models.generate_content
\* until the service answers or the client raises; the call is made without a
\* timeout, and HybridSearch.search sets none around expand (line 36).
InitSearchLive ==
    /\ InitSearch
    /\ query_expander

\* Lines 29-35: the expansion is answered from the cache or skipped
ExpandLocal ==
    /\ expander_cache[query] # <<>> \/ CountSpaces(query) + 1 > 5
    /\ Expand

\* Lines 39-44: the request is sent and the call blocks
LlmRequest ==
    /\ pc = "expand"
    /\ expander_cache[query] = <<>>
    /\ CountSpaces(query) + 1 <= 5
    /\ pc' = "llm_wait"
    /\ UNCHANGED <<mergeVars, routeVars, envVars, entry, n_results, use_classifier,
                   use_reranker, config, queries, qi, all_results, final, calls,
                   alarm, pipeline_error>>
    /\ UNCHANGED <<classVars, embedVars, auxVars>>

\* Lines 45-58: the service answered or the client raised
LlmRespond ==
    /\ pc = "llm_wait"
    /\ \E o \in expand(query, expander_cache) :
         /\ queries' = o.ret
         /\ expander_cache' = o.cache
    /\ pc' = "retrieve"
    /\ calls' = Append(calls, Call("expand", 0, 3))
    /\ UNCHANGED <<mergeVars, routeVars, reranker, query_expander, query_classifier,
                   bm25_built, entry, n_results, use_classifier, use_reranker,
                   config, qi, all_results, final, alarm, pipeline_error>>
    /\ UNCHANGED <<classVars, embedVars, auxVars>>

NextSearchLive ==
    \/ CallHybrid
    \/ ExpandLocal
    \/ LlmRequest
    \/ LlmRespond
    \/ RetrieveVariant
    \/ FinishSearch

\* The interpreter keeps executing the statements of the search; nothing
\* makes the remote service answer.
SearchFairness ==
    /\ WF_vars(ExpandLocal)
    /\ WF_vars(LlmRequest)
    /\ WF_vars(RetrieveVariant)
    /\ WF_vars(FinishSearch)

SpecSearchLive == InitSearchLive /\ [][NextSearchLive]_vars /\ SearchFairness

\* ---------------------------------- SpecConversation: ConversationManager
MaxHistory == 2
MaxTurns == 3

\* Query and answer texts: the empty string and two others
ConvQueries == {"", "how does routing work", "and for websockets"}
ConvAnswers == {"", "Valid answer"}
ConvSources == {<<>>, <<1>>}

\* history[-n:] as Python slices it: -0 is 0, so history[-0:] is history[0:]
SliceLast(h, n) ==
    IF n = 0 \/ n >= Len(h) THEN h ELSE SubSeq(h, Len(h) - n + 1, Len(h))

\* A trim to the oldest max_history turns
TrimHistory_KeepOldest(h, m) == IF Len(h) > m THEN SubSeq(h, 1, m) ELSE h

\* ConversationManager.add_turn lines 48-49
TrimHistory(h, m) == IF Len(h) > m THEN SliceLast(h, m) ELSE h

\* ConversationManager.add_turn lines 39-45; the timestamp is left out
Turn(h, q, a, s) ==
    [query |-> q, answer |-> a, sources |-> s, turn_number |-> Len(h) + 1]

\* ConversationManager.add_turn lines 29-51
add_turn(h, q, a, s, m) == TrimHistory(Append(h, Turn(h, q, a, s)), m)

\* ConversationManager.validate_state lines 69-97
validate_state(h) ==
    \A i \in 1..Len(h) :
        {"query", "answer", "sources", "turn_number"} \subseteq DOMAIN h[i]

\* ConversationManager.safe_add_turn lines 115-121: not query, not answer
Rejected(q, a) == q = "" \/ a = ""

ConvFrame ==
    UNCHANGED <<mergeVars, routeVars, envVars, callVars, classVars, embedVars,
                rerankVars, expandVars, max_history, convPc>>

\* ConversationManager.__init__ lines 16-26
InitConversation ==
    /\ history = <<>>
    /\ max_history \in 0..MaxHistory
    /\ added = <<>>
    /\ conv_ret = ""
    /\ convPc = "ready"
    /\ MergeIdle
    /\ RouteIdle
    /\ EnvIdle
    /\ CallIdle
    /\ pc = "off"
    /\ ClassIdle
    /\ EmbedIdle
    /\ RerankIdle
    /\ expand_path = ""

\* ConversationManager.add_turn(q, a, s)
AddTurn(q, a, s) ==
    /\ convPc = "ready"
    /\ Len(added) < MaxTurns
    /\ history' = add_turn(history, q, a, s, max_history)
    /\ added' = Append(added, Turn(history, q, a, s))
    /\ conv_ret' = "None"
    /\ ConvFrame

\* ConversationManager.safe_add_turn(q, a, s), lines 99-134
SafeAddTurn(q, a, s) ==
    /\ convPc = "ready"
    /\ Len(added) < MaxTurns
    /\ IF Rejected(q, a)
       THEN /\ conv_ret' = "False"
            /\ UNCHANGED <<history, added>>
       ELSE LET h1 == add_turn(history, q, a, s, max_history)
            IN IF validate_state(h1)
               THEN /\ history' = h1
                    /\ added' = Append(added, Turn(history, q, a, s))
                    /\ conv_ret' = "True"
               ELSE /\ history' = SubSeq(h1, 1, Len(h1) - 1)
                    /\ UNCHANGED added
                    /\ conv_ret' = "False"
    /\ ConvFrame

\* ConversationManager.clear lines 323-326
Clear ==
    /\ convPc = "ready"
    /\ history' = <<>>
    /\ added' = <<>>
    /\ conv_ret' = "None"
    /\ ConvFrame

NextConversation ==
    \/ \E q \in ConvQueries, a \in ConvAnswers, s \in ConvSources : AddTurn(q, a, s)
    \/ \E q \in ConvQueries, a \in ConvAnswers, s \in ConvSources : SafeAddTurn(q, a, s)
    \/ Clear

SpecConversation == InitConversation /\ [][NextConversation]_vars

\* ====================================================================
\* Properties
\* ====================================================================
IdSet(s) == {s[i].id : i \in 1..Len(s)}

\* 0-based rank of id in a ranked list, NoneVal when it is not there
RankIn(list, id) ==
    IF \E i \in 1..Len(list) : list[i].id = id
    THEN (CHOOSE i \in 1..Len(list) : list[i].id = id) - 1
    ELSE NoneVal

\* weight / (rank + k) on the scale of Denom(k, NumDocs); 0 when absent
Contribution(list, id, w, kk) ==
    IF RankIn(list, id) = NoneVal THEN 0
    ELSE (w * Denom(kk, NumDocs)) \div (RankIn(list, id) + kk)

\* C1: every candidate _merge_results returns has rrf_score equal to
\* bm25_weight/(r+k) for its lexical rank r plus vector_weight/(r'+k) for its
\* dense rank r', a list it is absent from contributing zero; this includes
\* candidates that only the dense list holds.
C1_ScoreIsSumOfContributions ==
    mergePc = "done" =>
        \A i \in 1..Len(merged) :
            merged[i].rrf_score =
                Contribution(bm25_results, merged[i].id, bm25_weight, k)
                + Contribution(vector_results, merged[i].id, vector_weight, k)

\* C4: _merge_results returns each id of the union of its two lists exactly
\* once; bm25_rank and vector_rank are the 0-based positions in the lexical
\* and the dense list, unset (never 0) for a list the id is not in; an id in
\* both lists carries both ranks and the lexical (first-seen) record.
C4_UnionRanksFirstSeen ==
    mergePc = "done" =>
        /\ Len(merged) = Cardinality(IdSet(bm25_results) \cup IdSet(vector_results))
        /\ IdSet(merged) = IdSet(bm25_results) \cup IdSet(vector_results)
        /\ \A i \in 1..Len(merged) :
              /\ merged[i].bm25_rank = RankIn(bm25_results, merged[i].id)
              /\ merged[i].vector_rank = RankIn(vector_results, merged[i].id)
              /\ merged[i].src =
                    IF merged[i].id \in IdSet(bm25_results) THEN "bm25" ELSE "vector"

\* A merge of a candidate in both lists, a lexical-only candidate and a
\* dense-only candidate that leads the dense list.
C4_Witness ==
    /\ mergePc = "done"
    /\ \E i, j, l \in 1..Len(merged) :
          /\ merged[i].bm25_rank # NoneVal /\ merged[i].vector_rank # NoneVal
          /\ merged[j].bm25_rank # NoneVal /\ merged[j].vector_rank = NoneVal
          /\ merged[l].bm25_rank = NoneVal /\ merged[l].vector_rank = 0

\* Position at which _merge_results first meets each id: the lexical list in
\* order, then the dense list.
FirstSeen ==
    [id \in IdSet(bm25_results) \cup IdSet(vector_results) |->
        IF RankIn(bm25_results, id) # NoneVal THEN RankIn(bm25_results, id)
        ELSE Len(bm25_results) + RankIn(vector_results, id)]

\* s is in descending rrf_score order and equal scores are in pos order
DescStable(s, pos) ==
    \A i, j \in 1..Len(s) :
        i < j => \/ s[i].rrf_score > s[j].rrf_score
                 \/ /\ s[i].rrf_score = s[j].rrf_score
                    /\ pos[s[i].id] < pos[s[j].id]

RerankRan == \E i \in 1..Len(calls) : calls[i].svc = "rerank"

\* Position at which the search first stored each candidate in all_results
AllResultsPos == [id \in IdSet(all_results) |-> KeyPos(all_results, id)]

\* C5: the list _merge_results returns is in descending rrf_score order with
\* equal scores in first-encountered order (lexical list, then dense-only
\* candidates in dense order); the list HybridSearch.search returns when no
\* reranking ran is in descending rrf_score order with equal scores in the
\* order the candidates were first stored.
C5_DescendingStableOrder ==
    /\ mergePc = "done" => DescStable(merged, FirstSeen)
    /\ (pc = "returned" /\ queries # <<>> /\ ~RerankRan /\ pipeline_error # "timeout")
          => /\ IdSet(final) \subseteq IdSet(all_results)
             /\ DescStable(final, AllResultsPos)

\* A search over two query variants that returned, without reranking, two
\* candidates of equal score.
C5_Witness ==
    /\ pc = "returned"
    /\ ~RerankRan
    /\ Len(queries) = 2
    /\ Len(final) = 2
    /\ final[1].rrf_score = final[2].rrf_score

Finished == pc \in {"returned", "raised"}

\* C2: a search entered with use_reranker = False (as AdaptiveSearch does on
\* its how_to and default routes) never calls the Reranker; stated here for
\* the calls that ask for at least one result.
C2_NoRerankerCallWhenDisabled ==
    (Finished /\ queries # <<>> /\ ~use_reranker /\ n_results > 0) => ~RerankRan

\* C3: the list HybridSearch.search returns has at most n_results elements.
C3_AtMostNResults ==
    (pc = "returned" /\ entry = "hybrid") => Len(final) <= n_results

\* C6: a Reranker that raises does not make the search call raise.
C6_RerankFailureAbsorbed ==
    ~(pc = "raised" /\ calls # <<>> /\ calls[Len(calls)].svc = "rerank")

\* C7: a lexical index that was never built yields an empty list instead of
\* raising, so the search call does not end in the exception of its
\* BM25Search.search call.
C7_UnbuiltIndexYieldsEmpty ==
    (entry \in {"hybrid", "adaptive"} /\ ~bm25_built)
        => ~(pc = "raised" /\ calls # <<>> /\ calls[Len(calls)].svc = "bm25")

Blank(q) == strip(q) = <<>>

\* C8 as stated: HybridSearch.search and AdaptiveSearch.search, given an empty
\* or whitespace-only query, call no collaborator and return an empty list
\* (stated here for components whose lexical index is built).
C8_SearchRejectsBlankQuery ==
    (entry \in {"hybrid", "adaptive"} /\ Blank(query) /\ bm25_built)
        => calls = <<>> /\ final = <<>>

\* C8 amended: RAGPipeline.query, given an empty or whitespace-only question,
\* returns error 'empty_query' at once: the search, hence every index and the
\* reranker, is not called.
C8_PipelineRejectsBlankQuestion ==
    (entry = "pipeline" /\ Blank(query))
        => /\ pc = "returned"
           /\ pipeline_error = "empty_query"
           /\ calls = <<>>
           /\ final = <<>>
           /\ ~alarm

\* RAGPipeline.query returned for a whitespace-only question.
C8_Witness ==
    /\ entry = "pipeline"
    /\ query = Q_blank
    /\ pc = "returned"
    /\ pipeline_error = "empty_query"

Routes == {"how_to", "specific_term", "complex", "default"}

\* C9: _determine_route returns exactly one route, the first whose rule
\* matches in the order how_to, specific_term, complex, default.
C9_FirstMatchingRoute ==
    routePc = "done" =>
        /\ route \in Routes
        /\ _is_how_to_query(query_lower) => route = "how_to"
        /\ (~_is_how_to_query(query_lower) /\ _is_single_term(query_lower))
              => route = "specific_term"
        /\ (~_is_how_to_query(query_lower) /\ ~_is_single_term(query_lower)
            /\ _is_complex_query(query_lower)) => route = "complex"
        /\ (~_is_how_to_query(query_lower) /\ ~_is_single_term(query_lower)
            /\ ~_is_complex_query(query_lower)) => route = "default"

\* A how-to query that also holds a code keyword and has 2 to 4 tokens.
C9_Witness ==
    /\ routePc = "done"
    /\ query = Q_how_to_add_middleware
    /\ _is_how_to_query(query_lower)
    /\ _is_complex_query(query_lower)
    /\ route = "how_to"

\* C10: the router's self-test table: 'routing' goes to the default route,
\* 'APIRouter' and 'Request' to specific_term.
C10_SelfTestTable ==
    routePc = "done" =>
        /\ query = Q_routing => route = "default"
        /\ query \in {Q_APIRouter, Q_Request} => route = "specific_term"

\* The shape the specific_term route is for: one token, or two tokens one of
\* which is a known short prefix.
SpecificTermShape(q) ==
    LET words == split(q)
    IN \/ Len(words) = 1
       \/ Len(words) = 2 /\ (words[1] \in common_prefixes \/ words[2] \in common_prefixes)

ScoredFields == {"rrf_score", "bm25_rank", "vector_rank"}

\* C12: every element HybridSearch.search or AdaptiveSearch.search returns
\* has the fields rrf_score, bm25_rank and vector_rank, and rerank_score when
\* the Reranker ran.
C12_ElementsCarryScores ==
    (pc = "returned" /\ entry \in {"hybrid", "adaptive"})
        => \A i \in 1..Len(final) :
              /\ ScoredFields \subseteq DOMAIN final[i]
              /\ RerankRan => "rerank_score" \in DOMAIN final[i]

\* One pass of the loop over the query variants that did not raise
VariantStep == pc = "retrieve" /\ qi' = qi + 1

\* C13: across the query variants of one HybridSearch.search call every id
\* is held once; after each variant a candidate's entry is the per-variant
\* merged record with the highest rrf_score seen so far (scores are never
\* added up), with the rank fields of that record, the earlier one on a tie.
C13_KeepsMaxOverVariants ==
    /\ [](\A i, j \in 1..Len(all_results) :
             i # j => all_results[i].id # all_results[j].id)
    /\ [][VariantStep =>
            /\ IdSet(all_results') = IdSet(all_results) \cup IdSet(merged')
            /\ \A id \in IdSet(all_results') :
                  LET new == all_results'[KeyPos(all_results', id)]
                      old == all_results[KeyPos(all_results, id)]
                      m == merged'[KeyPos(merged', id)]
                  IN IF id \notin IdSet(merged') THEN new = old
                     ELSE IF id \notin IdSet(all_results) THEN new = m
                     ELSE /\ new \in {old, m}
                          /\ new.rrf_score >= old.rrf_score
                          /\ new.rrf_score >= m.rrf_score
                          /\ old.rrf_score = m.rrf_score => new = old]_vars

\* Two variants were retrieved and a candidate of the second variant kept the
\* higher score it had from the first.
C13_Witness ==
    /\ pc = "retrieve"
    /\ Len(queries) = 2
    /\ qi = 3
    /\ \E i \in 1..Len(merged) :
          all_results[KeyPos(all_results, merged[i].id)].rrf_score
              > merged[i].rrf_score

\* C14: classify returns exactly one of the four categories for every string,
\* the first whose rule matches in the order specific_term, semantic,
\* code_pattern, else concept; so a specific term holding a question mark or
\* a code keyword is specific_term, and a query that is no specific term and
\* holds both a question indicator and a code keyword is semantic.
C14_FirstMatchingCategory ==
    classPc = "classified" =>
        LET q == strip(query)
        IN /\ query_type \in QueryTypes
           /\ _is_specific_term(q) => query_type = "specific_term"
           /\ (~_is_specific_term(q) /\ _is_semantic_query(q))
                 => query_type = "semantic"
           /\ (~_is_specific_term(q) /\ ~_is_semantic_query(q) /\ _is_code_pattern(q))
                 => query_type = "code_pattern"
           /\ (~_is_specific_term(q) /\ ~_is_semantic_query(q) /\ ~_is_code_pattern(q))
                 => query_type = "concept"

\* A two-token CamelCase query that also holds a question mark and a code
\* keyword was classified.
C14_Witness ==
    /\ classPc = "classified"
    /\ query_type = "specific_term"
    /\ _is_semantic_query(strip(query))
    /\ _is_code_pattern(strip(query))

\* C15: the config get_search_config returns depends on the category only,
\* also after callers changed configs returned earlier: specific_term has the
\* dense source and reranking off and lexical weight 1.0; semantic and
\* concept have both sources on at equal weights with reranking; code_pattern
\* has both sources on and the dense weight above the lexical weight.
C15_FixedConfigPerCategory ==
    classPc \in {"returned", "returned_again"} =>
        /\ class_config = get_search_config(query_type)
        /\ class_config.use_bm25
        /\ query_type = "specific_term" =>
              /\ ~class_config.use_vector
              /\ ~class_config.use_reranking
              /\ class_config.bm25_weight = 10
        /\ query_type \in {"semantic", "concept"} =>
              /\ class_config.use_vector
              /\ class_config.bm25_weight = class_config.vector_weight
              /\ class_config.use_reranking
        /\ query_type = "code_pattern" =>
              /\ class_config.use_vector
              /\ class_config.vector_weight > class_config.bm25_weight

\* get_search_config returned the code_pattern config after a caller had
\* written into the one returned before.
C15_Witness ==
    /\ classPc = "returned_again"
    /\ query_type = "code_pattern"
    /\ class_config.vector_weight = 10

IndexCalls == {i \in 1..Len(calls) : calls[i].svc \in {"bm25", "vector"}}

CallsOf(svc) == Cardinality({i \in 1..Len(calls) : calls[i].svc = svc})

\* C16 as stated: every index call of HybridSearch.search asks for three times
\* n_results when reranking will run (the config asks for it and a reranker
\* is configured), and for n_results when it will not.
C16_DepthTripledWhenRerankingRuns ==
    entry = "hybrid" =>
        \A i \in IndexCalls :
            calls[i].n = n_results * (IF config.use_reranking /\ reranker THEN 3 ELSE 1)

\* C16 amended: every index call of HybridSearch.search asks for 2 * n_results
\* candidates when config['use_reranking'] is true, whether or not a reranker
\* is configured, and for n_results otherwise; a call that returned asked each
\* enabled index once per query variant and a disabled index never.
C16_DepthDoubledWhenConfigReranks ==
    entry = "hybrid" =>
        /\ \A i \in IndexCalls :
              calls[i].n = n_results * (IF config.use_reranking THEN 2 ELSE 1)
        /\ pc = "returned" =>
              /\ CallsOf("bm25") = (IF config.use_bm25 THEN Len(queries) ELSE 0)
              /\ CallsOf("vector") = (IF config.use_vector THEN Len(queries) ELSE 0)

\* A search without a reranker whose config asks for reranking returned after
\* asking both indexes for 2 * n_results candidates under two variants.
C16_Witness ==
    /\ entry = "hybrid"
    /\ pc = "returned"
    /\ ~reranker
    /\ config.use_reranking
    /\ n_results = 2
    /\ Len(queries) = 2
    /\ CallsOf("bm25") = 2
    /\ \A i \in IndexCalls : calls[i].n = 4

\* C17: with two threads inside Embedder.embed on one cache, no call fails
\* and the cache never holds more than cache_size entries.
C17_ConcurrentEmbedSafe ==
    /\ \A t \in 1..Len(th) : th[t].pc # "failed"
    /\ Len(cache) <= cache_size

\* Threads that are past the cache scan of their current embed call
PastScan == {t \in 1..Len(th) : th[t].pc \in {"update", "evict_next", "evict_del",
                                               "store", "combine", "done"}}

TextsOf(t) == {th[t].texts[n] : n \in 1..Len(th[t].texts)}

C19_CachedTextsBypassModel ==
    \A t \in PastScan :
        /\ \A x \in TextsOf(t) :
              _get_text_hash(x) \in th[t].start_keys
                  => \A n \in 1..Len(th[t].uncached_texts) : th[t].uncached_texts[n] # x
        /\ Len(model_calls) \in {th[t].start_calls, th[t].start_calls + 1}
        /\ Len(model_calls) > th[t].start_calls
              => model_calls[Len(model_calls)] = th[t].uncached_texts
        /\ (\A x \in TextsOf(t) : _get_text_hash(x) \in th[t].start_keys)
              => Len(model_calls) = th[t].start_calls
        /\ (th[t].ncalls = 2 /\ th[t].single_input /\ th[t].prev = th[t].texts)
              => Len(model_calls) = 1

\* One text was embedded twice in a row and the model was called once.
C19_Witness ==
    /\ th[1].pc = "done"
    /\ th[1].ncalls = 2
    /\ th[1].single_input
    /\ th[1].prev = th[1].texts
    /\ Len(model_calls) = 1
    /\ th[1].result = Embedding(th[1].texts[1])

\* C20: embed on a list returns one row per text, row i being the embedding
\* of texts[i], for every mix of hits and misses.
C20_RowsInInputOrder ==
    \A t \in 1..Len(th) :
        (th[t].pc = "done" /\ ~th[t].single_input)
            => th[t].result = [n \in 1..Len(th[t].texts) |-> Embedding(th[t].texts[n])]

\* A list call returned whose first text was a hit and whose second text was
\* a miss that evicted that hit from the cache.
C20_Witness ==
    /\ th[1].pc = "done"
    /\ ~th[1].single_input
    /\ Len(th[1].texts) = 2
    /\ th[1].uncached_indices = <<1>>
    /\ Len(th[1].cached_embeddings) = 1
    /\ _get_text_hash(th[1].texts[1]) \notin CacheKeys(cache)
    /\ th[1].result[1] # th[1].result[2]

\* Position of each candidate in the list passed to rerank
RerankInputPos == [id \in IdSet(rr_results) |-> KeyPos(rr_results, id)]

\* Candidate a is ahead of candidate b in the stable descending order of
\* rerank_score over the input list
RerankAhead(a, b) ==
    \/ rr_scores[a] > rr_scores[b]
    \/ /\ rr_scores[a] = rr_scores[b]
       /\ RerankInputPos[a] < RerankInputPos[b]

\* The list rerank returned is the first len elements of the input sorted
\* stably by descending rerank_score, each element carrying its score
RerankedIsSortedPrefix(len) ==
    /\ Len(rr_reranked) = len
    /\ IdSet(rr_reranked) \subseteq IdSet(rr_results)
    /\ \A i \in 1..Len(rr_reranked) :
          rr_reranked[i].rerank_score = rr_scores[rr_reranked[i].id]
    /\ \A i, j \in 1..Len(rr_reranked) :
          i < j => RerankAhead(rr_reranked[i].id, rr_reranked[j].id)
    /\ \A a \in IdSet(rr_results) \ IdSet(rr_reranked) :
          \A i \in 1..Len(rr_reranked) : RerankAhead(rr_reranked[i].id, a)

\* C21: Reranker.rerank scores every input candidate and returns the
\* candidates stably sorted by descending rerank_score; a top_k that is
\* provided is applied after the sort, so that the output is the first top_k
\* elements of the fully sorted list; with top_k absent or at least the
\* input length the output is a permutation of the input.
C21_RerankSortsThenTruncates ==
    rerankPc = "returned" =>
        RerankedIsSortedPrefix(IF rr_top_k = NoneVal \/ rr_top_k >= Len(rr_results)
                               THEN Len(rr_results) ELSE rr_top_k)

\* The search ran its loop over every query variant to the end
LoopDone == queries # <<>> /\ qi > Len(queries)

\* C22: Reranker.rerank on an empty list returns [] without calling the
\* cross-encoder; a HybridSearch.search whose fused candidate list is empty
\* does not call the Reranker and returns [] normally.
C22_EmptyListSkipsCrossEncoder ==
    /\ (rerankPc \in {"returned", "raised"} /\ rr_results = <<>>)
          => /\ rerankPc = "returned"
             /\ rr_reranked = <<>>
             /\ predict_calls = 0
    /\ (Finished /\ LoopDone /\ all_results = <<>>)
          => /\ pc = "returned"
             /\ final = <<>>
             /\ ~RerankRan

\* A search with a reranker and a config that asks for reranking ended its
\* loop with no candidate and returned the empty list.
C22_Witness ==
    /\ pc = "returned"
    /\ entry = "hybrid"
    /\ LoopDone
    /\ reranker
    /\ config.use_reranking
    /\ n_results > 0
    /\ all_results = <<>>
    /\ CallsOf("vector") > 0
    /\ final = <<>>

\* The last collaborator call of the search was the expander
ExpandWasLast == calls # <<>> /\ calls[Len(calls)].svc = "expand"

\* C23: QueryExpander.expand returns, on its cache-hit, long-query, LLM
\* success and LLM failure paths alike, a non-empty list whose first element
\* is the original query (written 0); on an LLM exception the list is exactly
\* [query] and the cache is left as it was; a search whose expansion failed
\* goes on to retrieval with the original query instead of raising.
C23_ExpandFallsBackToOriginalQuery ==
    /\ [](/\ (pc = "expander" /\ expand_path # "")
                => /\ queries # <<>>
                   /\ queries[1] = 0
          /\ (pc = "expander" /\ expand_path = "exception") => queries = <<0>>
          /\ ExpandWasLast => /\ pc = "retrieve"
                              /\ queries # <<>>
                              /\ queries[1] = 0)
    /\ [][/\ (pc = "expander" /\ expand_path' = "exception")
                => expander_cache' = expander_cache
          /\ (pc = "expand" /\ pc' # "expand" /\ expander_cache' = expander_cache
                /\ expander_cache[query] = <<>>)
                => /\ pc' = "retrieve"
                   /\ queries' = <<0>>]_vars

\* The expander, holding the cached expansion of another query, took its
\* except branch.
C23_Witness ==
    /\ pc = "expander"
    /\ expand_path = "exception"
    /\ query = Q_routing
    /\ expander_cache[Q_routing] = <<>>
    /\ Len(expander_cache[Q_how_to_add_middleware]) = 2

\* C24: every HybridSearch.search call made with an expander configured
\* eventually ends, also when the LLM service never answers the expansion
\* request.
C24_SearchWithExpanderEnds ==
    (entry = "hybrid" /\ query_expander) ~> Finished

\* The list _merge_results returns for the same lists, dense weight and k
\* under the lexical weight w
MergedUnder(w) == _merge_results(bm25_results, vector_results, w, vector_weight, k)

\* Candidates found by the Lexical Index only
LexicalOnly == IdSet(bm25_results) \ IdSet(vector_results)

\* C25: with the two ranked lists, the dense weight and k fixed, a candidate
\* that only the Lexical Index returned stands, under a larger lexical
\* weight, at a position of the fused list no worse than under the smaller.
C25_LexicalWeightMonotone ==
    mergePc = "done" =>
        \A w2 \in Weights :
            w2 > bm25_weight =>
                \A c \in LexicalOnly :
                    KeyPos(MergedUnder(w2), c) <= KeyPos(merged, c)

\* A lexical-only candidate that a larger lexical weight moves strictly up
C25_Witness ==
    /\ mergePc = "done"
    /\ bm25_weight > 0
    /\ \E w2 \in Weights, c \in LexicalOnly :
          /\ w2 > bm25_weight
          /\ KeyPos(MergedUnder(w2), c) < KeyPos(merged, c)

\* No chunk id occurs twice in s
DistinctIds(s) == \A i, j \in 1..Len(s) : i # j => s[i].id # s[j].id

\* C26: within one search call the Reranker is called at most once, as the
\* last collaborator call, when the loop over the query variants has ended
\* and each enabled index has been asked once per variant; what it is given,
\* and so what it returns, are candidates of the fused set all_results, which
\* holds each chunk id once.
C26_RerankOnceAfterFusion ==
    /\ [](/\ CallsOf("rerank") <= 1
          /\ RerankRan
               => /\ calls[Len(calls)].svc = "rerank"
                  /\ LoopDone
                  /\ CallsOf("bm25") = (IF config.use_bm25 THEN Len(queries) ELSE 0)
                  /\ CallsOf("vector") = (IF config.use_vector THEN Len(queries) ELSE 0)
                  /\ DistinctIds(all_results))
    /\ [][(Len(calls') > Len(calls) /\ calls'[Len(calls')].svc = "rerank")
            => /\ pc = "retrieve"
               /\ qi > Len(queries)
               /\ all_results # <<>>
               /\ UNCHANGED all_results
               /\ pc' \in {"returned", "cancel"}
                    => /\ DistinctIds(final')
                       /\ IdSet(final') \subseteq IdSet(all_results)
                       /\ Len(final') = (IF n_results > 0 /\ n_results < Len(all_results)
                                         THEN n_results ELSE Len(all_results))]_vars

\* A search over two query variants that asked both indexes twice, fused two
\* candidates and had them reranked once.
C26_Witness ==
    /\ pc = "returned"
    /\ CallsOf("rerank") = 1
    /\ Len(queries) = 2
    /\ CallsOf("bm25") = 2
    /\ CallsOf("vector") = 2
    /\ Len(all_results) = 2
    /\ Len(final) = 2

\* The step in which the timeout handler of RAGPipeline.query ran
TimerFires == pipeline_error' = "timeout" /\ pipeline_error # "timeout"

\* C27 as stated: a timeout of RAGPipeline.query yields the typed timeout
\* result (error 'timeout', no sources) and the timer fires only while
\* retrieval is running, never after retrieval has returned.
C27_TimerNeverFiresAfterRetrieval ==
    /\ [](pipeline_error = "timeout" => (pc = "returned" /\ final = <<>>))
    /\ [][TimerFires => pc \in {"expand", "retrieve"}]_vars

\* C27 amended: whenever the timer fires, during retrieval or between the
\* end of retrieval and the cancellation in the finally clause, the call
\* returns the typed timeout result with no sources; the step after the end
\* of retrieval cancels the timer or is that timeout, and no alarm is pending
\* once the call has returned or outside a RAGPipeline.query call.
C27_TimeoutTypedAndTimerCancelled ==
    /\ [](/\ pipeline_error = "timeout" => (pc = "returned" /\ final = <<>>)
          /\ pc = "returned" => ~alarm
          /\ entry # "pipeline" => ~alarm)
    /\ [][/\ TimerFires
               => (alarm /\ pc \in {"expand", "retrieve", "cancel", "cancel_raised"})
          /\ pc \in {"cancel", "cancel_raised"} => (pc' = "returned" /\ ~alarm')]_vars

\* A pipeline query timed out after retrieval had produced candidates
C27_Witness ==
    /\ entry = "pipeline"
    /\ pc = "returned"
    /\ pipeline_error = "timeout"
    /\ all_results # <<>>
    /\ final = <<>>
    /\ ~alarm

\* C28: safe_add_turn with an empty query or an empty answer returns False
\* and leaves the history as it was; with a non-empty query and a non-empty
\* answer it returns True, the new turn is the last entry of the history and
\* validate_state() holds.
C28_SafeAddTurnValidates ==
    [][\A q \in ConvQueries, a \in ConvAnswers, s \in ConvSources :
          SafeAddTurn(q, a, s) =>
              IF q = "" \/ a = ""
              THEN /\ conv_ret' = "False"
                   /\ history' = history
              ELSE /\ conv_ret' = "True"
                   /\ history' # <<>>
                   /\ history'[Len(history')].query = q
                   /\ history'[Len(history')].answer = a
                   /\ history'[Len(history')].sources = s
                   /\ validate_state(history')]_vars

\* safe_add_turn accepted a turn on a history that was already full
C28_Witness ==
    /\ convPc = "ready"
    /\ conv_ret = "True"
    /\ max_history = 2
    /\ Len(added) = 3
    /\ Len(history) = 2
    /\ history[2] = added[3]

\* The last n elements of s, all of s when it has fewer
LastTurns(s, n) == IF Len(s) > n THEN SubSeq(s, Len(s) - n + 1, Len(s)) ELSE s

\* C30: after any sequence of add_turn, safe_add_turn and clear, for every
\* max_history >= 0, the history holds at most max_history turns, and they
\* are the most recently added turns in the order they were added.
C30_HistoryBoundedMostRecent ==
    convPc = "ready" =>
        /\ Len(history) <= max_history
        /\ history = LastTurns(added, max_history)

\* The search resolved its config through the classifier and the query was
\* classified SPECIFIC_TERM
ClassifiedSpecificTerm ==
    /\ entry = "hybrid"
    /\ use_classifier
    /\ query_classifier
    /\ classify(query) = "specific_term"

\* C29: HybridSearch.search asks an index only when the resolved config
\* enables it; for a query classified SPECIFIC_TERM with the classifier in
\* use, the Dense Index, the Query Expander and the Reranker are not called
\* and the Lexical Index is asked exactly once, for the original query.
C29_SpecificTermLexicalOnly ==
    /\ (entry = "hybrid" /\ ~config.use_vector) => CallsOf("vector") = 0
    /\ (entry = "hybrid" /\ ~config.use_bm25) => CallsOf("bm25") = 0
    /\ ClassifiedSpecificTerm
          => /\ CallsOf("vector") = 0
             /\ CallsOf("expand") = 0
             /\ CallsOf("rerank") = 0
             /\ calls \in {<<>>, <<Call("bm25", 0, n_results)>>}
             /\ Finished => calls = <<Call("bm25", 0, n_results)>>

\* A search with classifier, expander and reranker configured returned the
\* lexical results of a SPECIFIC_TERM query.
C29_Witness ==
    /\ ClassifiedSpecificTerm
    /\ pc = "returned"
    /\ reranker
    /\ query_expander
    /\ n_results > 0
    /\ calls = <<Call("bm25", 0, n_results)>>
    /\ final # <<>>

====
